---- MODULE Spec2Model ----
(***************************************************************************)
(* MaBoSS-client: the command-line front end of the MaBoSS server.         *)
(* The model follows main() of MaBoSS-client.cc: the option loop, the      *)
(* validation of the network file and the port, the construction of the    *)
(* ClientData request, the exchange with the server and the writing of the *)
(* reply blobs.  Strings are TLA+ strings; a C character pointer is a      *)
(* sequence that is empty for NULL and holds the string otherwise.         *)
(***************************************************************************)
EXTENDS Integers, Sequences, FiniteSets, TLC

VARIABLES
  argv,         \* argv[1..argc-1], the command line after the program name
  server,       \* the reply the simulated server gives to the request
  pc,           \* position of main
  nn,           \* index of the option loop
  main,         \* the locals of main set by the option loop
  client_data,  \* the ClientData request
  calls,        \* the mutators called on client_data, in order
  begin,        \* iterator over runconfig_file_or_expr_v
  client,       \* the Client object: "none", "live", "deleted"
  server_data,  \* the ServerData reply
  files,        \* the filePutContents calls made: <<[name, contents]>>
  reads,        \* the fileGetContents calls made: file names
  sends,        \* number of client->send calls
  sent,         \* the request as it was when send was called
  exit,         \* what main returned: <<>> while running, <<code>> after
  stderr,       \* diagnostics printed on std::cerr
  stdout,       \* what was printed on std::cout
  nullUse       \* std::string(output) was evaluated with output == NULL

vars == <<argv, server, pc, nn, main, client_data, calls, begin, client,
          server_data, files, reads, sends, sent, exit, stderr, stdout, nullUse>>

-----------------------------------------------------------------------------
(* Bounds of the model *)

\* longest command line drawn from the whole token alphabet
MaxArgs == 2
\* most option items put around a complete "--port 1 net" command line
MaxItems == 3

-----------------------------------------------------------------------------
(* Pointers *)

NULL == <<>>
Ptr(s) == <<s>>
Deref(p) == p[1]

-----------------------------------------------------------------------------
(* The inputs: command lines, the file system, server replies *)

\* tokens whose first character is '-'
DashTokens ==
  {"-version", "--version", "--host", "--port", "--config-vars", "--config-expr",
   "-e", "-o", "--output", "-c", "--config", "--verbose", "--override",
   "--augment", "--check", "--hexfloat", "--help", "-h", "-v", "--bogus"}

\* tokens whose first character is not '-' (the empty string included)
PlainTokens == {"", "net", "empty", "cfg", "A=1", "1", "out"}

Tokens == DashTokens \cup PlainTokens

\* opt[0] == '-'
IsDash(opt) == opt \in DashTokens

\* the files that exist and are readable, with their contents
FileNames == {"net", "empty", "cfg"}
FileContents(f) ==
  CASE f = "net" -> "A -> B;"
    [] f = "empty" -> ""
    [] f = "cfg" -> "sample_count = 10;"

RECURSIVE Flatten(_)
Flatten(ss) == IF ss = <<>> THEN <<>> ELSE Head(ss) \o Flatten(Tail(ss))

SeqsUpTo(S, n) == UNION {[1..k -> S] : k \in 0..n}

\* the option items placed around a complete command line
Items ==
  {<<"--config-vars", "A=1">>, <<"--config-vars", "">>, <<"--config-vars", "B=2,C=3">>,
   <<"-c", "cfg">>, <<"--config", "nofile">>, <<"-e", "X=1;">>,
   <<"--override">>, <<"--augment">>, <<"--host", "--override">>, <<"--help">>,
   <<"-o", "out">>, <<"empty">>}

Tail3 == <<"--port", "1", "net">>

ArgvGeneral == SeqsUpTo(Tokens, MaxArgs)
ArgvAround ==
  UNION {{Flatten(p) \o Tail3, <<"net", "--port", "1">> \o Flatten(p)} :
           p \in SeqsUpTo(Items, MaxItems)}

\* command lines of complete runs, tried against every reply
ArgvRun ==
  {<<"-o", "out", "--port", "1", "net">>,
   <<"--verbose", "--check", "--port", "1", "net">>,
   <<"--port", "1", "--output", "res", "--check", "net">>,
   <<"--host", "h", "--port", "1", "--verbose", "-o", "out", "net", "net">>,
   <<"--hexfloat", "--augment", "-c", "cfg", "-o", "out", "--port", "1", "net">>,
   <<"-v", "A=1", "-o", "out", "--port", "1", "net">>,
   <<"-o", "out", "--port", "1", "empty">>}

Blob(on, text) == IF on THEN text ELSE ""

Reply(t, r, p, s, f, st) ==
  [traj |-> Blob(t, "T"), runlog |-> Blob(r, "R"),
   probtraj |-> Blob(p, "t,A,B\n0,1,0\n"), statdist |-> Blob(s, "S"),
   fp |-> Blob(f, "F"), status |-> st,
   error_message |-> IF st = 0 THEN "" ELSE "unknown node C"]

Replies ==
  {Reply(t, r, p, s, f, st) : t \in BOOLEAN, r \in BOOLEAN, p \in BOOLEAN,
                              s \in BOOLEAN, f \in BOOLEAN, st \in {0, 1}}

\* the replies tried against every command line
FewReplies == {Reply(FALSE, FALSE, TRUE, FALSE, FALSE, 0)}

Inputs ==
  ((ArgvGeneral \cup ArgvAround) \X FewReplies) \cup (ArgvRun \X Replies)

argc == Len(argv) + 1

-----------------------------------------------------------------------------
(* Collaborators whose code is outside MaBoSS-client.cc *)

\* Utils: the option opt at index n is the last word of the command line
checkArgMissing(opt, n, c) == n = c - 1

\* Utils: 0 and the contents when the file can be read, non-zero otherwise
fileGetContents(f) ==
  IF f \in FileNames THEN [rc |-> 0, contents |-> FileContents(f)]
  ELSE [rc |-> 1, contents |-> ""]

\* Utils: the write of one file
filePutContents(name, contents) == [name |-> name, contents |-> contents]

\* DataStreamer: the flag bits, as a set of flags
HEXFLOAT_FLAG == {"HEXFLOAT"}
OVERRIDE_FLAG == {"OVERRIDE"}
AUGMENT_FLAG == {"AUGMENT"}

\* ClientData as constructed
EmptyClientData ==
  [network |-> "", configs |-> <<>>, config_vars |-> "", command |-> "",
   flags |-> {}]

\* ServerData as constructed
EmptyServerData ==
  [traj |-> "", runlog |-> "", probtraj |-> "", statdist |-> "", fp |-> "",
   status |-> 0, error_message |-> ""]

-----------------------------------------------------------------------------
(* usage() and help() *)

usage == 1
help == 0

-----------------------------------------------------------------------------
(* main: the option loop *)

MainLocals ==
  [output |-> NULL, runconfig_file_or_expr_v |-> <<>>, config_vars |-> "",
   ctbndl_file |-> NULL, port |-> "", host |-> "", verbose |-> FALSE,
   check |-> FALSE, override |-> FALSE, augment |-> FALSE, hexfloat |-> FALSE]

Continue(m, n) == [main |-> m, nn |-> n, ret |-> NULL, err |-> <<>>, out |-> <<>>]
Return(m, n, code, e, o) == [main |-> m, nn |-> n, ret |-> Ptr(code), err |-> e, out |-> o]

Msg(what, arg) == [msg |-> what, arg |-> arg]

\* config_vars += "," when not empty; config_vars += arg
AppendConfigVarsNoComma(config_vars, arg) == config_vars \o arg
AppendConfigVars(config_vars, arg) ==
  IF Len(config_vars) > 0 THEN config_vars \o "," \o arg ELSE arg

\* runconfig_file_or_expr_v.push_back(ConfigOpt(arg, is_expr))
PushConfigOptFront(v, arg, is_expr) == <<[arg |-> arg, expr |-> is_expr]>> \o v
PushConfigOpt(v, arg, is_expr) == Append(v, [arg |-> arg, expr |-> is_expr])

\* the test guarding --override (on augment) and --augment (on override)
ExclusiveNotChecked(other) == FALSE
Exclusive(other) == other

\* one iteration of the for loop over argv, at index n with locals m
LoopBody(m, n) ==
  LET opt == argv[n]
      missing == checkArgMissing(opt, n, argc)
      arg == argv[n + 1]
      NoArg == Return(m, n, usage, <<Msg("missing value after option", opt)>>, <<>>)
      Excl == Return(m, n, usage,
                     <<Msg("--override and --augment are exclusive options", "")>>, <<>>)
  IN
  IF IsDash(opt) THEN
    CASE opt \in {"-version", "--version"} ->
           Return(m, n, 0, <<>>, <<"MaBoSS version <TBD>">>)
      [] opt = "--host" ->
           IF missing THEN NoArg ELSE Continue([m EXCEPT !.host = arg], n + 2)
      [] opt = "--port" ->
           IF missing THEN NoArg ELSE Continue([m EXCEPT !.port = arg], n + 2)
      [] opt = "--config-vars" ->
           IF missing THEN NoArg
           ELSE Continue([m EXCEPT !.config_vars = AppendConfigVars(@, arg)], n + 2)
      [] opt \in {"--config-expr", "-e"} ->
           IF missing THEN NoArg
           ELSE Continue([m EXCEPT !.runconfig_file_or_expr_v =
                                      PushConfigOpt(@, arg, TRUE)], n + 2)
      [] opt \in {"-o", "--output"} ->
           IF missing THEN NoArg ELSE Continue([m EXCEPT !.output = Ptr(arg)], n + 2)
      [] opt \in {"-c", "--config"} ->
           IF missing THEN NoArg
           ELSE Continue([m EXCEPT !.runconfig_file_or_expr_v =
                                      PushConfigOpt(@, arg, FALSE)], n + 2)
      [] opt = "--verbose" -> Continue([m EXCEPT !.verbose = TRUE], n + 1)
      [] opt = "--override" ->
           IF Exclusive(m.augment) THEN Excl
           ELSE Continue([m EXCEPT !.override = TRUE], n + 1)
      [] opt = "--augment" ->
           IF Exclusive(m.override) THEN Excl
           ELSE Continue([m EXCEPT !.augment = TRUE], n + 1)
      [] opt = "--check" -> Continue([m EXCEPT !.check = TRUE], n + 1)
      [] opt = "--hexfloat" -> Continue([m EXCEPT !.hexfloat = TRUE], n + 1)
      [] opt \in {"--help", "-h"} -> Return(m, n, help, <<>>, <<"help">>)
      [] OTHER -> Return(m, n, usage, <<Msg("unknown option", opt)>>, <<>>)
  ELSE IF m.ctbndl_file = NULL THEN
    Continue([m EXCEPT !.ctbndl_file = Ptr(opt)], n + 1)
  ELSE
    [Continue(m, n + 1) EXCEPT
       !.err = <<Msg("boolean network file is already set", opt)>>]

\* for (int nn = 1; nn < argc; ++nn) { ... }
ParseArg ==
  /\ pc = "parse"
  /\ nn < argc
  /\ LET r == LoopBody(main, nn) IN
       /\ main' = r.main
       /\ nn' = r.nn
       /\ stderr' = stderr \o r.err
       /\ stdout' = stdout \o r.out
       /\ exit' = r.ret
       /\ pc' = IF r.ret = NULL THEN "parse" ELSE "done"
  /\ UNCHANGED <<argv, server, client_data, calls, begin, client, server_data,
                 files, reads, sends, sent, nullUse>>

-----------------------------------------------------------------------------
(* main: validation, and the construction of the request *)

\* after the loop: the network file and the port are required
CheckArgs ==
  /\ pc = "parse"
  /\ nn >= argc
  /\ IF NULL = main.ctbndl_file THEN
       /\ stderr' = Append(stderr, Msg("boolean network file is missing", ""))
       /\ exit' = Ptr(usage)
       /\ pc' = "done"
     ELSE IF Len(main.port) = 0 THEN
       /\ stderr' = Append(stderr, Msg("port is missing", ""))
       /\ exit' = Ptr(usage)
       /\ pc' = "done"
     ELSE
       /\ pc' = "network"
       /\ UNCHANGED <<stderr, exit>>
  /\ UNCHANGED <<argv, server, nn, main, client_data, calls, begin, client,
                 server_data, files, reads, sends, sent, stdout, nullUse>>

\* ClientData client_data; the network file is read and set
ReadNetwork ==
  /\ pc = "network"
  /\ LET r == fileGetContents(Deref(main.ctbndl_file)) IN
       /\ reads' = Append(reads, Deref(main.ctbndl_file))
       /\ IF r.rc # 0 THEN
            /\ exit' = Ptr(1)
            /\ pc' = "done"
            /\ UNCHANGED <<client_data, calls>>
          ELSE
            /\ client_data' = [client_data EXCEPT !.network = r.contents]
            /\ calls' = Append(calls, "setNetwork")
            /\ pc' = "configs"
            /\ UNCHANGED exit
  /\ begin' = 1
  /\ UNCHANGED <<argv, server, nn, main, client, server_data, files, sends,
                 sent, stderr, stdout, nullUse>>

\* client_data.addConfigExpr(expr) and client_data.addConfig(contents)
addConfigExpr(cd, expr) ==
  [cd EXCEPT !.configs = Append(@, [kind |-> "expr", text |-> expr])]
addConfig(cd, contents) ==
  [cd EXCEPT !.configs = Append(@, [kind |-> "file", text |-> contents])]

\* one iteration of the while loop over runconfig_file_or_expr_v
AddFragment ==
  /\ pc = "configs"
  /\ begin <= Len(main.runconfig_file_or_expr_v)
  /\ LET cfg == main.runconfig_file_or_expr_v[begin] IN
       IF cfg.expr THEN
         /\ client_data' = addConfigExpr(client_data, cfg.arg)
         /\ calls' = Append(calls, "addConfigExpr")
         /\ begin' = begin + 1
         /\ UNCHANGED <<reads, exit, pc>>
       ELSE
         LET r == fileGetContents(cfg.arg) IN
           /\ reads' = Append(reads, cfg.arg)
           /\ IF r.rc # 0 THEN
                /\ exit' = Ptr(1)
                /\ pc' = "done"
                /\ UNCHANGED <<client_data, calls, begin>>
              ELSE
                /\ client_data' = addConfig(client_data, r.contents)
                /\ calls' = Append(calls, "addConfig")
                /\ begin' = begin + 1
                /\ UNCHANGED <<exit, pc>>
  /\ UNCHANGED <<argv, server, nn, main, client, server_data, files, sends,
                 sent, stderr, stdout, nullUse>>

\* flags = 0, then |= one flag per option set
Flags(hexfloat, override, augment) ==
  (IF hexfloat THEN HEXFLOAT_FLAG ELSE {})
    \cup (IF override THEN OVERRIDE_FLAG ELSE {})
    \cup (IF augment THEN AUGMENT_FLAG ELSE {})

\* check ? DataStreamer::CHECK_COMMAND : DataStreamer::RUN_COMMAND
Command(check) == IF check THEN "CHECK_COMMAND" ELSE "RUN_COMMAND"

\* after the while loop: setConfigVars, setCommand, setFlags
Finalize ==
  /\ pc = "configs"
  /\ begin > Len(main.runconfig_file_or_expr_v)
  /\ client_data' =
       [client_data EXCEPT
          !.config_vars = main.config_vars,
          !.command = Command(main.check),
          !.flags = Flags(main.hexfloat, main.override, main.augment)]
  /\ calls' = calls \o <<"setConfigVars", "setCommand", "setFlags">>
  /\ pc' = "send"
  /\ UNCHANGED <<argv, server, nn, main, begin, client, server_data, files,
                 reads, sends, sent, exit, stderr, stdout, nullUse>>

-----------------------------------------------------------------------------
(* main: the exchange with the server and the output files *)

\* Client* client = new Client(host, port, verbose); client->send(...)
Send ==
  /\ pc = "send"
  /\ client' = "live"
  /\ server_data' = server
  /\ sends' = sends + 1
  /\ sent' = Ptr(client_data)
  /\ pc' = "write"
  /\ UNCHANGED <<argv, server, nn, main, client_data, calls, begin, files,
                 reads, exit, stderr, stdout, nullUse>>

\* the five blobs in the order main tests them, with the suffix of each
BlobFiles ==
  <<[blob |-> "traj", suffix |-> "_traj.txt"],
    [blob |-> "runlog", suffix |-> "_run.txt"],
    [blob |-> "probtraj", suffix |-> "_probtraj.csv"],
    [blob |-> "statdist", suffix |-> "_statdist.csv"],
    [blob |-> "fp", suffix |-> "_fp.csv"]>>

NonEmpty(sd, b) == Len(sd[b.blob]) > 0

\* the filePutContents calls of main for reply sd and prefix string prefix
RECURSIVE PutFrom(_, _, _)
PutFrom(i, prefix, sd) ==
  IF i > Len(BlobFiles) THEN <<>>
  ELSE (IF NonEmpty(sd, BlobFiles[i])
        THEN <<filePutContents(prefix \o BlobFiles[i].suffix, sd[BlobFiles[i].blob])>>
        ELSE <<>>) \o PutFrom(i + 1, prefix, sd)

\* what std::string(output) can do when output is NULL (undefined behaviour):
\* the process is terminated (exception or fault), or the prefix reads as empty
NullStringOutcomes == {"terminated", "empty"}

\* the five tests on the reply blobs and their filePutContents calls
WriteFiles ==
  /\ pc = "write"
  /\ IF \E i \in 1..Len(BlobFiles) : NonEmpty(server_data, BlobFiles[i]) THEN
       IF main.output = NULL THEN
         /\ nullUse' = TRUE
         /\ \E outcome \in NullStringOutcomes :
              IF outcome = "terminated" THEN
                /\ pc' = "crashed"
                /\ UNCHANGED files
              ELSE
                /\ files' = files \o PutFrom(1, "", server_data)
                /\ pc' = "status"
       ELSE
         /\ files' = files \o PutFrom(1, Deref(main.output), server_data)
         /\ pc' = "status"
         /\ UNCHANGED nullUse
     ELSE
       /\ pc' = "status"
       /\ UNCHANGED <<files, nullUse>>
  /\ UNCHANGED <<argv, server, nn, main, client_data, calls, begin, client,
                 server_data, reads, sends, sent, exit, stderr, stdout>>

\* the value main returns for a reply status
ReturnCodeIgnoringStatus(status) == 0
ReturnCode(status) == IF status # 0 THEN 1 ELSE 0

\* the test of the reply status, delete client, return
CheckStatus ==
  /\ pc = "status"
  /\ IF server_data.status # 0 THEN
       /\ stderr' = Append(stderr, Msg("error", server_data.error_message))
       /\ UNCHANGED client
     ELSE
       /\ client' = "deleted"
       /\ UNCHANGED stderr
  /\ exit' = Ptr(ReturnCode(server_data.status))
  /\ pc' = "done"
  /\ UNCHANGED <<argv, server, nn, main, client_data, calls, begin,
                 server_data, files, reads, sends, sent, stdout, nullUse>>

-----------------------------------------------------------------------------

Init ==
  /\ \E inp \in Inputs : argv = inp[1] /\ server = inp[2]
  /\ pc = "parse"
  /\ nn = 1
  /\ main = MainLocals
  /\ client_data = EmptyClientData
  /\ calls = <<>>
  /\ begin = 1
  /\ client = "none"
  /\ server_data = EmptyServerData
  /\ files = <<>>
  /\ reads = <<>>
  /\ sends = 0
  /\ sent = NULL
  /\ exit = NULL
  /\ stderr = <<>>
  /\ stdout = <<>>
  /\ nullUse = FALSE

Next ==
  \/ ParseArg
  \/ CheckArgs
  \/ ReadNetwork
  \/ AddFragment
  \/ Finalize
  \/ Send
  \/ WriteFiles
  \/ CheckStatus

Spec == Init /\ [][Next]_vars

-----------------------------------------------------------------------------
(* The command line as the usage text describes it, read without running   *)
(* main: the words at option position and the values that follow them.     *)

\* the options that are followed by a value
TakesValue ==
  {"--host", "--port", "--config-vars", "--config-expr", "-e", "-o", "--output",
   "-c", "--config"}

HelpOrVersion == {"--help", "-h", "--version", "-version"}

\* the indexes of the words of a that are not the value of the option before
RECURSIVE WordsFrom(_, _)
WordsFrom(a, i) ==
  IF i > Len(a) THEN <<>>
  ELSE <<i>> \o WordsFrom(a, IF a[i] \in TakesValue THEN i + 2 ELSE i + 1)

Range(f) == {f[i] : i \in DOMAIN f}

OptionIndexes(a) == {i \in Range(WordsFrom(a, 1)) : IsDash(a[i])}

\* the values of the options named in opts, in command-line order
RECURSIVE ValuesFrom(_, _, _)
ValuesFrom(a, ws, opts) ==
  IF ws = <<>> THEN <<>>
  ELSE (IF a[Head(ws)] \in opts /\ Head(ws) < Len(a)
        THEN <<[opt |-> a[Head(ws)], value |-> a[Head(ws) + 1]]>>
        ELSE <<>>) \o ValuesFrom(a, Tail(ws), opts)

ValuesOf(a, opts) == ValuesFrom(a, WordsFrom(a, 1), opts)

RECURSIVE Join(_)
Join(vs) ==
  IF vs = <<>> THEN ""
  ELSE IF Len(vs) = 1 THEN vs[1]
  ELSE vs[1] \o "," \o Join(Tail(vs))

RECURSIVE DropLeadingEmpty(_)
DropLeadingEmpty(vs) ==
  IF vs # <<>> /\ Head(vs) = "" THEN DropLeadingEmpty(Tail(vs)) ELSE vs

ConfigVarsValues(a) ==
  LET vs == ValuesOf(a, {"--config-vars"}) IN [i \in DOMAIN vs |-> vs[i].value]

\* the fragment that a -c/--config or -e/--config-expr option asks for
FragmentOf(o) ==
  IF o.opt \in {"-e", "--config-expr"}
  THEN [kind |-> "expr", text |-> o.value]
  ELSE [kind |-> "file", text |-> FileContents(o.value)]

FragmentOptions(a) == ValuesOf(a, {"-c", "--config", "-e", "--config-expr"})

Returned(code) == pc = "done" /\ exit = Ptr(code)

HasError(what) == \E i \in DOMAIN stderr : stderr[i].msg = what

NonEmptyBlobs(sd) == {i \in 1..Len(BlobFiles) : NonEmpty(sd, BlobFiles[i])}

\* nothing of the run after the option loop has happened
NothingStarted ==
  /\ pc \in {"parse", "done"}
  /\ reads = <<>>
  /\ calls = <<>>
  /\ client_data = EmptyClientData
  /\ client = "none"
  /\ sends = 0

-----------------------------------------------------------------------------
(* C1 *)

\* C1: whenever send returned a reply whose status is non-zero, no output
\* file is written, whatever the five blobs hold.
C1NoFileOnError ==
  (sends > 0 /\ server_data.status # 0) => files = <<>>

-----------------------------------------------------------------------------
(* C2 *)

ContainsBoth ==
  /\ \E i \in DOMAIN argv : argv[i] = "--override"
  /\ \E i \in DOMAIN argv : argv[i] = "--augment"

BothFlags == (OVERRIDE_FLAG \cup AUGMENT_FLAG) \subseteq client_data.flags

\* C2 as stated: every command line that contains both --override and
\* --augment ends with exit code 1 before any file is read, any ClientData is
\* built, any Client is created or send is called; the flags never hold both.
C2ExclusiveAlways ==
  /\ ContainsBoth => NothingStarted /\ (pc = "done" => exit = Ptr(1))
  /\ ~BothFlags

\* --override and --augment are both at option position, and no --help, -h,
\* --version or -version is at option position before the second of them
BothAsOptions ==
  \E i, j \in OptionIndexes(argv) :
    /\ argv[i] = "--override"
    /\ argv[j] = "--augment"
    /\ \A k \in OptionIndexes(argv) :
         (k < i \/ k < j) => argv[k] \notin HelpOrVersion

\* C2 amended: when --override and --augment are both read as options (neither
\* is the value of the option before it) and no help or version option is read
\* before the second of them, the run ends with exit code 1 before any file is
\* read, any ClientData is built, any Client is created or send is called; in
\* every run the flags word never has both OVERRIDE_FLAG and AUGMENT_FLAG.
C2ExclusiveOptions ==
  /\ BothAsOptions => NothingStarted /\ (pc = "done" => exit = Ptr(1))
  /\ ~BothFlags

C2Witness ==
  /\ BothAsOptions
  /\ Returned(1)
  /\ HasError("--override and --augment are exclusive options")
  /\ \E i \in DOMAIN argv : argv[i] = "--port"

-----------------------------------------------------------------------------
(* C3 *)

\* C3: after the write phase of a run whose reply has status 0, the files
\* written are exactly one per non-empty blob, named <output> plus the suffix
\* of the blob and holding the blob's text, and no other file.
C3FilesPerBlob ==
  (pc \in {"status", "done", "crashed"} /\ sends > 0 /\ server_data.status = 0) =>
    /\ Len(files) = Cardinality(NonEmptyBlobs(server_data))
    /\ \A i \in NonEmptyBlobs(server_data) :
         /\ main.output # NULL
         /\ filePutContents(Deref(main.output) \o BlobFiles[i].suffix,
                            server_data[BlobFiles[i].blob]) \in Range(files)

-----------------------------------------------------------------------------
(* C4 *)

\* C4: when send is called, the fragments of the request are, position by
\* position, the -c/--config and -e/--config-expr options of the command line:
\* same number, same order, same kind, and the text each option asks for.
C4FragmentOrder ==
  sent # NULL =>
    LET want == FragmentOptions(argv)
        got == Deref(sent).configs
    IN /\ Len(got) = Len(want)
       /\ \A i \in DOMAIN got : got[i] = FragmentOf(want[i])

C4Witness ==
  /\ sent # NULL
  /\ Len(Deref(sent).configs) >= 2
  /\ \E i, j \in DOMAIN Deref(sent).configs :
       i < j /\ Deref(sent).configs[i].kind = "file"
             /\ Deref(sent).configs[j].kind = "expr"

-----------------------------------------------------------------------------
(* C5 *)

\* C5: on every return of main after the Client was created, the Client has
\* been deleted.
C5ClientReleased ==
  (pc = "done" /\ client # "none") => client = "deleted"

-----------------------------------------------------------------------------
(* C6 *)

\* C6: -v is accepted as the short form of --config-vars, as the usage and
\* help texts give it: no run rejects -v as an unknown option.
C6ShortConfigVars ==
  \A i \in DOMAIN stderr : stderr[i] # Msg("unknown option", "-v")

-----------------------------------------------------------------------------
(* C7 *)

\* setConfigVars is called once, after every addConfig and addConfigExpr
SetOnceAfterFragments ==
  /\ Cardinality({i \in DOMAIN calls : calls[i] = "setConfigVars"}) = 1
  /\ \A i, j \in DOMAIN calls :
       (calls[i] = "setConfigVars" /\ calls[j] \in {"addConfig", "addConfigExpr"})
         => j < i
  /\ Cardinality({i \in DOMAIN calls : calls[i] \in {"addConfig", "addConfigExpr"}})
       = Len(FragmentOptions(argv))

\* C7 as stated: when send is called, the variable-override string is the
\* values of all --config-vars options joined by single commas in command-line
\* order, set once after all fragments, whatever the position of the options.
C7JoinedByCommas ==
  sent # NULL =>
    /\ Deref(sent).config_vars = Join(ConfigVarsValues(argv))
    /\ SetOnceAfterFragments

\* C7 amended: when send is called, the variable-override string is the values
\* of all --config-vars options, without the empty values that come before the
\* first non-empty one, joined by single commas in command-line order (empty
\* when none is left); it is set once after all fragments and depends only on
\* the --config-vars options, not on their position among the other options.
C7JoinedAfterFirstNonEmpty ==
  sent # NULL =>
    /\ Deref(sent).config_vars = Join(DropLeadingEmpty(ConfigVarsValues(argv)))
    /\ SetOnceAfterFragments

C7Witness ==
  /\ sent # NULL
  /\ Deref(sent).config_vars = "A=1,B=2,C=3"
  /\ Len(Deref(sent).configs) > 0
  /\ argv[1] = "--config-vars"

-----------------------------------------------------------------------------
(* C8 *)

\* C8: whenever send is called, the network text of the request is not empty.
C8NetworkNonEmpty ==
  sent # NULL => Len(Deref(sent).network) > 0

-----------------------------------------------------------------------------
(* C9 *)

\* the request was fully populated, in the order of main, when it was sent
FullyPopulated ==
  /\ sent = Ptr(client_data)
  /\ Len(calls) = Len(main.runconfig_file_or_expr_v) + 4
  /\ calls[1] = "setNetwork"
  /\ \A i \in 2..(Len(calls) - 3) : calls[i] \in {"addConfig", "addConfigExpr"}
  /\ SubSeq(calls, Len(calls) - 2, Len(calls)) =
       <<"setConfigVars", "setCommand", "setFlags">>
  /\ client_data.network = FileContents(Deref(main.ctbndl_file))
  /\ Len(client_data.configs) = Len(main.runconfig_file_or_expr_v)
  /\ client_data.config_vars = main.config_vars
  /\ client_data.command \in {"RUN_COMMAND", "CHECK_COMMAND"}

UsageErrors ==
  {"unknown option", "missing value after option",
   "boolean network file is missing", "port is missing"}

\* C9: apart from the help and version exits, main returns 0 only if send was
\* called exactly once, on a fully populated request, and the reply status is
\* 0; every other ending returns non-zero, and an unknown option, a missing
\* option value, a missing network file and a missing port end the run
\* without send being called.
C9ExitCodes ==
  /\ sends <= 1
  /\ (Returned(0) /\ stdout = <<>>) =>
       sends = 1 /\ FullyPopulated /\ server_data.status = 0
  /\ (pc = "done" /\ stdout = <<>> /\ ~(sends = 1 /\ server_data.status = 0)) =>
       exit # NULL /\ Deref(exit) # 0
  /\ \A e \in UsageErrors : HasError(e) => Returned(1) /\ sends = 0
  /\ (pc = "done" /\ reads # <<>> /\ reads[Len(reads)] \notin FileNames) =>
       Returned(1) /\ sends = 0
  /\ (pc = "done" /\ sends = 1 /\ server_data.status # 0) => Returned(1)

C9Witness ==
  /\ Returned(0)
  /\ stdout = <<>>
  /\ sends = 1
  /\ Len(calls) > 4

-----------------------------------------------------------------------------
(* C10 *)

\* C10: a file name is built, and a file written, only with the output prefix
\* set by -o/--output: std::string(output) is never evaluated on a NULL output.
C10PrefixSet ==
  /\ ~nullUse
  /\ files # <<>> => main.output # NULL

====
